---------------------------- MODULE Spec2Model ----------------------------
(***************************************************************************)
(* State-machine model of SearchServer (src/search-server/main.cpp).       *)
(*                                                                         *)
(* A text is a sequence of one-character strings; a word is a non-empty    *)
(* sequence of characters (the empty word arises only from the query       *)
(* token "-").  A double is kept as an exact fraction [num, den] in lowest  *)
(* terms; a relevance is such a fraction of 10^-6, ln being taken from a   *)
(* table of ln(p) * 10^6 for the primes p, so that ln(m*n) = ln(m) + ln(n) *)
(* holds exactly.                                                          *)
(***************************************************************************)
EXTENDS Integers, Sequences, FiniteSets, TLC

VARIABLES stop_words_, word_to_document_freqs_, documents_,
          doc_terms, call, ret

vars == <<stop_words_, word_to_document_freqs_, documents_, doc_terms, call, ret>>

(***************************************************************************)
(* Bounds of the model.                                                    *)
(***************************************************************************)
\* AddDocument calls that index at least one term, over all ids, in Spec
MaxAdds == 2
\* documents loaded, with consecutive ids, in SpecTop
TopDocs == 6
\* documents loaded, with consecutive ids, in SpecNear
NearDocs == 4
\* words of the shortest long document of SpecNear
NearWords == 600

\* SpecRatings: the number of documents loaded
RatingDocs == 3

(***************************************************************************)
(* Program constants.                                                      *)
(***************************************************************************)
MAX_RESULT_DOCUMENT_COUNT == 5

Statuses == {"ACTUAL", "IRRELEVANT", "BANNED", "REMOVED"}

(***************************************************************************)
(* Generic helpers.                                                        *)
(***************************************************************************)
Abs(x) == IF x < 0 THEN -x ELSE x

Min(a, b) == IF a < b THEN a ELSE b

Range(s) == {s[i] : i \in 1..Len(s)}

\* the range of int
INT_MAX == 2147483647

INT_MIN == -INT_MAX - 1

\* a + b leaves the range of int
AddOverflows(a, b) ==
    \/ b > 0 /\ a > INT_MAX - b
    \/ b < 0 /\ a < INT_MIN - b

\* a + b in int where it fits, and modulo 2^32 where it does not
WrapAdd(a, b) ==
    IF b > 0 /\ a > INT_MAX - b THEN (a - INT_MAX) + (b - INT_MAX) - 2
    ELSE IF b < 0 /\ a < INT_MIN - b THEN (a - INT_MIN) + (b - INT_MIN)
    ELSE a + b

RECURSIVE Accumulate(_, _)
\* std::accumulate over int: init + s[1] + s[2] + ..., from the left
Accumulate(s, init) ==
    IF s = <<>> THEN init ELSE Accumulate(Tail(s), WrapAdd(init, Head(s)))

RECURSIVE AccumulateOverflows(_, _)
\* one of the additions of Accumulate(s, init) leaves the range of int
AccumulateOverflows(s, init) ==
    /\ s # <<>>
    /\ \/ AddOverflows(init, Head(s))
       \/ AccumulateOverflows(Tail(s), WrapAdd(init, Head(s)))

RECURSIVE Gcd(_, _)
Gcd(a, b) == IF b = 0 THEN a ELSE Gcd(b, a % b)

\* the fraction n/d, d > 0, in lowest terms
Rat(n, d) ==
    LET g == Gcd(Abs(n), d) IN [num |-> n \div g, den |-> d \div g]

Zero == Rat(0, 1)

One == Rat(1, 1)

RatAdd(a, b) == Rat(a.num * b.den + b.num * a.den, a.den * b.den)

RatSub(a, b) == Rat(a.num * b.den - b.num * a.den, a.den * b.den)

\* the fraction a times the integer k
RatScale(a, k) == Rat(a.num * k, a.den)

RatLess(a, b) == a.num * b.den < b.num * a.den

RECURSIVE RatSumOver(_, _)
\* the sum of the fractions f[x] over the x of the finite set S
RatSumOver(f, S) ==
    IF S = {} THEN Zero
    ELSE LET x == CHOOSE y \in S : TRUE
         IN  RatAdd(f[x], RatSumOver(f, S \ {x}))

\* C++ int division by b > 0: the quotient truncated toward zero
TruncDiv(a, b) ==
    IF a >= 0 \/ a % b = 0 THEN a \div b ELSE (a \div b) + 1

(***************************************************************************)
(* Characters and the order of std::string, std::set<string>.              *)
(***************************************************************************)
CharCode(c) == CASE c = " " -> 32
                 [] c = "-" -> 45
                 [] c = "a" -> 97
                 [] c = "b" -> 98
                 [] c = "c" -> 99
                 [] c = "x" -> 120

RECURSIVE WordLess(_, _)
\* operator< of std::string: lexicographic
WordLess(u, v) ==
    IF u = <<>> THEN v # <<>>
    ELSE IF v = <<>> THEN FALSE
    ELSE IF CharCode(Head(u)) # CharCode(Head(v))
         THEN CharCode(Head(u)) < CharCode(Head(v))
    ELSE WordLess(Tail(u), Tail(v))

RECURSIVE SortedWords(_)
\* the elements of a std::set<string> in iteration order
SortedWords(S) ==
    IF S = {} THEN <<>>
    ELSE LET m == CHOOSE x \in S : \A y \in S \ {x} : WordLess(x, y)
         IN  <<m>> \o SortedWords(S \ {m})

(***************************************************************************)
(* SplitIntoWords: split on ' ' only, dropping empty words.  The loop      *)
(* pushes a word when a ' ' or the end of the text follows characters      *)
(* other than ' ': the words are the maximal runs without ' ', in order.   *)
(* The positions are gathered by halving, for long texts.                  *)
(***************************************************************************)
\* position i of text starts a word: word is empty before text[i] is added
IsWordStart(text, i) == text[i] # " " /\ (i = 1 \/ text[i - 1] = " ")

RECURSIVE WordStarts(_, _, _)
\* the positions lo..hi of text that start a word, ascending
WordStarts(text, lo, hi) ==
    IF lo > hi THEN <<>>
    ELSE IF lo = hi THEN (IF IsWordStart(text, lo) THEN <<lo>> ELSE <<>>)
    ELSE LET mid == (lo + hi) \div 2
         IN  WordStarts(text, lo, mid) \o WordStarts(text, mid + 1, hi)

\* the position at which the word started at i is pushed: a ' ' or the end
\* of the text follows it
WordEnd(text, i) ==
    CHOOSE j \in i..Len(text) :
        /\ \A k \in i..j : text[k] # " "
        /\ (j = Len(text) \/ text[j + 1] = " ")

SplitIntoWords(text) ==
    LET starts == WordStarts(text, 1, Len(text))
    IN  [k \in 1..Len(starts) |-> SubSeq(text, starts[k], WordEnd(text, starts[k]))]

IsStopWord(stop, word) == word \in stop

\* a split that keeps the stop words
SplitIntoWordsKeepingStop(stop, text) == SplitIntoWords(text)

SplitIntoWordsNoStop(stop, text) ==
    SelectSeq(SplitIntoWords(text), LAMBDA w : ~IsStopWord(stop, w))

(***************************************************************************)
(* Inputs offered to the operations.                                       *)
(***************************************************************************)
DocIds == {0, 1}

\* the ids asked of MatchDocument: one of them is never added
MatchIds == DocIds \cup {2}

\* "", "a", "a b", "c  b c "
DocTexts == { <<>>,
              <<"a">>,
              <<"a", " ", "b">>,
              <<"c", " ", " ", "b", " ", "c", " ">> }

\* " a"
StopTexts == { <<" ", "a">> }

\* (status, ratings) pairs
DocMetas == { <<"ACTUAL", <<8, -3>>>>, <<"BANNED", <<5, -12, 2, 1>>>> }

\* "a", "a  b -c", "-a b a", "c -"
Queries == { <<"a">>,
             <<"a", " ", " ", "b", " ", "-", "c">>,
             <<"-", "a", " ", "b", " ", "a">>,
             <<"c", " ", "-">> }

\* "a  b", "-a b a"
MatchQueries == { <<"a", " ", " ", "b">>,
                  <<"-", "a", " ", "b", " ", "a">> }

\* the statuses and predicates asked for
QueryStatuses == {"BANNED"}

QueryPredicates == {"all", "even_id"}

\* SpecTop: "a b", "a", "b  c b" with a status each
TopInputs == { << <<"a", " ", "b">>, "ACTUAL" >>,
               << <<"a">>, "BANNED" >>,
               << <<"b", " ", " ", "c", " ", "b">>, "ACTUAL" >> }

\* SpecTop: the ratings given with document id; two ids share an average
TopRatings(id) == << (id \div 2) - 2, id \div 2 >>

\* "a b", "b -c"
TopQueries == { <<"a", " ", "b">>, <<"b", " ", "-", "c">> }

\* "x b b ... b", of n words
LongText(n) ==
    [i \in 1..(2 * n - 1) |-> IF i = 1 THEN "x" ELSE IF i % 2 = 0 THEN " " ELSE "b"]

\* SpecNear: three long documents whose TF of "x" differ by little, and "c",
\* with a status each
NearInputs == { << LongText(NearWords),     "ACTUAL" >>,
                << LongText(NearWords + 1), "BANNED" >>,
                << LongText(NearWords + 2), "ACTUAL" >>,
                << <<"c">>,                 "ACTUAL" >> }

\* "x"
NearQueries == { <<"x">> }

\* SpecRatings: "a", "a b" with a status each
RatingInputs == { << <<"a">>, "ACTUAL" >>,
                  << <<"a", " ", "b">>, "BANNED" >> }

\* SpecRatings: no rating; sums 5 and -5, odd over two ratings; sums that
\* leave the range of int upwards and downwards
RatingLists == { <<>>,
                 <<8, -3>>,
                 <<-7, 2>>,
                 <<INT_MAX, 1>>,
                 <<INT_MIN, -1, 5>> }

\* "a"
RatingQueries == { <<"a">> }


(***************************************************************************)
(* Maps (std::map) as functions.                                           *)
(***************************************************************************)
EmptyMap == [x \in {} |-> 0]

Put(m, k, v) == [x \in (DOMAIN m) \cup {k} |-> IF x = k THEN v ELSE m[x]]

\* std::map::emplace: inserts only when the key is absent
Emplace(m, k, v) == IF k \in DOMAIN m THEN m ELSE Put(m, k, v)

(***************************************************************************)
(* ComputeAverageRating.                                                   *)
(***************************************************************************)
ComputeAverageRating(ratings) ==
    IF ratings = <<>> THEN 0
    ELSE TruncDiv(Accumulate(ratings, 0), Len(ratings))

\* The sum is kept in an int: a sum that leaves the range of int is
\* undefined behaviour.  The build then either wraps modulo 2^32 or, with
\* trapping arithmetic, aborts the process.
ComputeAverageRatingOutcomes(ratings) ==
    {[trap |-> FALSE, rating |-> ComputeAverageRating(ratings)]}
        \cup (IF AccumulateOverflows(ratings, 0)
              THEN {[trap |-> TRUE, rating |-> 0]} ELSE {})

(***************************************************************************)
(* ParseQueryWord, ParseQuery.                                             *)
(***************************************************************************)
ParseQueryWord(stop, text) ==
    LET is_minus == text[1] = "-"
        data     == IF is_minus THEN Tail(text) ELSE text
    IN  [data |-> data, is_minus |-> is_minus, is_stop |-> IsStopWord(stop, data)]

ParseQuery(stop, text) ==
    LET qw == {ParseQueryWord(stop, w) : w \in Range(SplitIntoWords(text))}
    IN  [plus_words  |-> {q.data : q \in {x \in qw : ~x.is_stop /\ ~x.is_minus}},
         minus_words |-> {q.data : q \in {x \in qw : ~x.is_stop /\ x.is_minus}}]

(***************************************************************************)
(* log, in units of 10^-6: ln of a prime from the table, ln of a product   *)
(* as the sum.                                                             *)
(***************************************************************************)
LnPrime(p) == CASE p = 2  -> 693147
                [] p = 3  -> 1098612
                [] p = 5  -> 1609438
                [] p = 7  -> 1945910
                [] p = 11 -> 2397895
                [] p = 13 -> 2564949

RECURSIVE LnNat(_)
LnNat(n) ==
    IF n = 1 THEN 0
    ELSE LET p == CHOOSE q \in 2..n : n % q = 0 /\ \A r \in 2..(q - 1) : n % r # 0
         IN  LnPrime(p) + LnNat(n \div p)

\* 1e-6 in the unit of a relevance, 10^-6
ERROR_RATE == 1

(***************************************************************************)
(* SearchServer: the read-only operations as operators of the state.       *)
(***************************************************************************)
\* a count of the documents that have an entry in the index
GetDocumentCountIndexed ==
    Cardinality(UNION {DOMAIN word_to_document_freqs_[w] :
                         w \in DOMAIN word_to_document_freqs_})

GetDocumentCount == Cardinality(DOMAIN documents_)

\* log(GetDocumentCount() * 1.0 / word_to_document_freqs_.at(word).size())
ComputeWordInverseDocumentFreq(word) ==
    LnNat(GetDocumentCount) - LnNat(Cardinality(DOMAIN word_to_document_freqs_[word]))

\* the three kinds of filter of FindTopDocuments
StatusFilter(s) == [kind |-> "status", status |-> s, name |-> "none"]

PredicateFilter(n) == [kind |-> "predicate", status |-> "none", name |-> n]

\* no filter given: FindTopDocuments(raw_query)
DefaultFilter == [kind |-> "default", status |-> "none", name |-> "none"]

\* a status filter that lets BANNED documents through whatever is asked
PredicateLeakingBanned(filter, document_id, doc_status, rating) ==
    CASE filter.kind = "status"    -> doc_status = filter.status \/ doc_status = "BANNED"
      [] filter.name = "all"       -> TRUE
      [] filter.name = "even_id"   -> document_id % 2 = 0

\* the call predicate(document_id, status, rating)
Predicate(filter, document_id, doc_status, rating) ==
    CASE filter.kind = "status"    -> doc_status = filter.status
      [] filter.name = "all"       -> TRUE
      [] filter.name = "even_id"   -> document_id % 2 = 0

\* the plus-word loop of FindAllDocuments: document_to_relevance
PlusRelevance(query, filter) ==
    LET words == {w \in query.plus_words : w \in DOMAIN word_to_document_freqs_}
        pass(id) == Predicate(filter, id, documents_[id].status, documents_[id].rating)
        ids   == {id \in DOMAIN documents_ :
                    \E w \in words : id \in DOMAIN word_to_document_freqs_[w] /\ pass(id)}
        term(id) == [w \in words |->
                       IF id \in DOMAIN word_to_document_freqs_[w]
                       THEN RatScale(word_to_document_freqs_[w][id],
                                     ComputeWordInverseDocumentFreq(w))
                       ELSE Zero]
    IN  [id \in ids |-> RatSumOver(term(id), words)]

\* a minus-word loop that spares a document matched by the same word as a
\* plus word
MinusErasedUnlessPlus(query) ==
    UNION {DOMAIN word_to_document_freqs_[w] :
             w \in {x \in query.minus_words \ query.plus_words :
                       x \in DOMAIN word_to_document_freqs_}}

\* the minus-word loop of FindAllDocuments: the ids it erases
MinusErased(query) ==
    UNION {DOMAIN word_to_document_freqs_[w] :
             w \in {x \in query.minus_words : x \in DOMAIN word_to_document_freqs_}}

RECURSIVE IdOrder(_)
\* the keys of a std::map<int, ...> in iteration order
IdOrder(S) ==
    IF S = {} THEN <<>>
    ELSE LET m == CHOOSE x \in S : \A y \in S : x <= y
         IN  <<m>> \o IdOrder(S \ {m})

FindAllDocuments(query, filter) ==
    LET document_to_relevance == PlusRelevance(query, filter)
        kept  == (DOMAIN document_to_relevance) \ MinusErased(query)
        order == IdOrder(kept)
    IN  [i \in 1..Len(order) |->
            [id        |-> order[i],
             relevance |-> document_to_relevance[order[i]],
             rating    |-> documents_[order[i]].rating]]

\* the comparator handed to sort
Comp(lhs, rhs) ==
    LET diff == RatSub(lhs.relevance, rhs.relevance)
    IN  IF Abs(diff.num) < ERROR_RATE * diff.den
        THEN lhs.rating > rhs.rating
        ELSE diff.num > 0

IsStrictWeakOrder(S) ==
    /\ \A x \in S : ~Comp(x, x)
    /\ \A x, y, z \in S : Comp(x, y) /\ Comp(y, z) => Comp(x, z)
    /\ \A x, y, z \in S :
          (~Comp(x, y) /\ ~Comp(y, x) /\ ~Comp(y, z) /\ ~Comp(z, y))
             => (~Comp(x, z) /\ ~Comp(z, x))

RECURSIVE Orderings(_)
\* the orders of the elements of S in which no element is followed by one that
\* compares before it
Orderings(S) ==
    IF S = {} THEN {<<>>}
    ELSE UNION { {<<m>> \o t : t \in Orderings(S \ {m})} :
                    m \in {x \in S : \A y \in S : ~Comp(y, x)} }

RECURSIVE AllOrders(_)
AllOrders(S) ==
    IF S = {} THEN {<<>>}
    ELSE UNION { {<<m>> \o t : t \in AllOrders(S \ {m})} : m \in S }

\* std::sort: equivalent elements in any order; with a comparator that is no
\* strict weak order on the input, the behaviour is undefined: any order
SortOutcomes(docs) ==
    IF IsStrictWeakOrder(Range(docs)) THEN Orderings(Range(docs))
    ELSE AllOrders(Range(docs))

\* a truncation that keeps the last MAX_RESULT_DOCUMENT_COUNT documents
TruncateTail(docs) ==
    IF Len(docs) > MAX_RESULT_DOCUMENT_COUNT
    THEN SubSeq(docs, Len(docs) - MAX_RESULT_DOCUMENT_COUNT + 1, Len(docs))
    ELSE docs

\* matched_documents.resize(MAX_RESULT_DOCUMENT_COUNT) when longer
Truncate(docs) ==
    IF Len(docs) > MAX_RESULT_DOCUMENT_COUNT
    THEN SubSeq(docs, 1, MAX_RESULT_DOCUMENT_COUNT)
    ELSE docs

\* what FindTopDocuments(raw_query, predicate) may return
FindTopDocumentsOutcomes(raw_query, filter) ==
    LET query == ParseQuery(stop_words_, raw_query)
    IN  {Truncate(s) : s \in SortOutcomes(FindAllDocuments(query, filter))}

\* a word list that a matching minus word does not clear
MatchedWordsIgnoringMinus(raw_query, document_id) ==
    LET query == ParseQuery(stop_words_, raw_query)
        has(w) == /\ w \in DOMAIN word_to_document_freqs_
                  /\ document_id \in DOMAIN word_to_document_freqs_[w]
    IN  SelectSeq(SortedWords(query.plus_words), has)

\* the word list of MatchDocument
MatchedWords(raw_query, document_id) ==
    LET query == ParseQuery(stop_words_, raw_query)
        has(w) == /\ w \in DOMAIN word_to_document_freqs_
                  /\ document_id \in DOMAIN word_to_document_freqs_[w]
    IN  IF \E w \in query.minus_words : has(w)
        THEN <<>>
        ELSE SelectSeq(SortedWords(query.plus_words), has)

(***************************************************************************)
(* The state machine.  call is the last call made and ret what it          *)
(* returned; doc_terms records, for each id, the words (stop words         *)
(* dropped) of the first AddDocument call made with that id.               *)
(***************************************************************************)
NoCall == [op |-> "none", id |-> -1, text |-> <<>>, status |-> "none",
           ratings |-> <<>>,
           filter |-> [kind |-> "none", status |-> "none", name |-> "none"]]

NoRet == [docs |-> <<>>, words |-> <<>>, status |-> "none", count |-> -1,
          error |-> "none"]

Init ==
    /\ stop_words_ = {}
    /\ word_to_document_freqs_ = EmptyMap
    /\ documents_ = EmptyMap
    /\ doc_terms = EmptyMap
    /\ call = NoCall
    /\ ret = NoRet

SetStopWords(text) ==
    /\ stop_words_' = stop_words_ \cup Range(SplitIntoWords(text))
    /\ call' = [NoCall EXCEPT !.op = "SetStopWords", !.text = text]
    /\ ret' = NoRet
    /\ UNCHANGED <<word_to_document_freqs_, documents_, doc_terms>>

\* the number of occurrences of word in words
Occurrences(words, word) == Cardinality({i \in 1..Len(words) : words[i] = word})

\* the loop word_to_document_freqs_[word][document_id] += inv_word_count
AddFreqs(freqs, document_id, words) ==
    LET inv_word_count == IF Len(words) = 0 THEN Zero ELSE Rat(1, Len(words))
        old(w) == IF w \in DOMAIN freqs /\ document_id \in DOMAIN freqs[w]
                  THEN freqs[w][document_id] ELSE Zero
        row(w) == IF w \in DOMAIN freqs THEN freqs[w] ELSE EmptyMap
    IN  [w \in (DOMAIN freqs) \cup Range(words) |->
            IF w \in Range(words)
            THEN Put(row(w), document_id,
                     RatAdd(old(w), RatScale(inv_word_count, Occurrences(words, w))))
            ELSE freqs[w]]

\* the calls of AddDocument that indexed a term, counted from the index
IndexedAdds ==
    LET mass(w) == RatSumOver(word_to_document_freqs_[w],
                              DOMAIN word_to_document_freqs_[w])
        total   == [w \in DOMAIN word_to_document_freqs_ |-> mass(w)]
    IN  RatSumOver(total, DOMAIN total).num \div RatSumOver(total, DOMAIN total).den

\* The average is computed after the indexing loop: a call aborted there
\* has indexed its words and stored no rating and status.
AddDocument(document_id, document, status, ratings) ==
    LET words == SplitIntoWordsNoStop(stop_words_, document)
    IN  /\ word_to_document_freqs_' = AddFreqs(word_to_document_freqs_, document_id, words)
        /\ \E average \in ComputeAverageRatingOutcomes(ratings) :
              IF average.trap
              THEN /\ ret' = [NoRet EXCEPT !.error = "SIGABRT"]
                   /\ UNCHANGED <<documents_, doc_terms>>
              ELSE /\ documents_' = Emplace(documents_, document_id,
                                            [rating |-> average.rating, status |-> status])
                   /\ doc_terms' = Emplace(doc_terms, document_id, words)
                   /\ ret' = NoRet
        /\ call' = [NoCall EXCEPT !.op = "AddDocument", !.id = document_id,
                                  !.text = document, !.status = status,
                                  !.ratings = ratings]
        /\ UNCHANGED stop_words_

\* FindTopDocuments(raw_query, predicate)
FindTopDocuments(raw_query, filter) ==
    /\ \E docs \in FindTopDocumentsOutcomes(raw_query, filter) :
          ret' = [NoRet EXCEPT !.docs = docs]
    /\ call' = [NoCall EXCEPT !.op = "FindTopDocuments", !.text = raw_query,
                              !.filter = filter]
    /\ UNCHANGED <<stop_words_, word_to_document_freqs_, documents_, doc_terms>>

\* FindTopDocuments(raw_query, status): the call above with the predicate
\* doc_status == status
FindTopDocumentsByStatus(raw_query, status) ==
    FindTopDocuments(raw_query, StatusFilter(status))

\* FindTopDocuments(raw_query): the status DocumentStatus::ACTUAL
FindTopDocumentsDefault(raw_query) ==
    /\ \E docs \in FindTopDocumentsOutcomes(raw_query, StatusFilter("ACTUAL")) :
          ret' = [NoRet EXCEPT !.docs = docs]
    /\ call' = [NoCall EXCEPT !.op = "FindTopDocuments", !.text = raw_query,
                              !.filter = DefaultFilter]
    /\ UNCHANGED <<stop_words_, word_to_document_freqs_, documents_, doc_terms>>

GetDocumentCountCall ==
    /\ call' = [NoCall EXCEPT !.op = "GetDocumentCount"]
    /\ ret' = [NoRet EXCEPT !.count = GetDocumentCount]
    /\ UNCHANGED <<stop_words_, word_to_document_freqs_, documents_, doc_terms>>

\* documents_.at(document_id) throws std::out_of_range for an unknown id
MatchDocument(raw_query, document_id) ==
    /\ call' = [NoCall EXCEPT !.op = "MatchDocument", !.text = raw_query,
                              !.id = document_id]
    /\ ret' = IF document_id \in DOMAIN documents_
              THEN [NoRet EXCEPT !.words = MatchedWords(raw_query, document_id),
                                 !.status = documents_[document_id].status]
              ELSE [NoRet EXCEPT !.error = "out_of_range"]
    /\ UNCHANGED <<stop_words_, word_to_document_freqs_, documents_, doc_terms>>

\* Spec: any call with any id, as long as the index stays within MaxAdds
Next ==
    \/ \E text \in StopTexts : SetStopWords(text)
    \/ \E id \in DocIds, text \in DocTexts, m \in DocMetas :
          /\ SplitIntoWordsNoStop(stop_words_, text) # <<>> => IndexedAdds < MaxAdds
          /\ AddDocument(id, text, m[1], m[2])
    \/ \E q \in Queries, p \in QueryPredicates : FindTopDocuments(q, PredicateFilter(p))
    \/ \E q \in Queries, s \in QueryStatuses : FindTopDocumentsByStatus(q, s)
    \/ \E q \in Queries : FindTopDocumentsDefault(q)
    \/ GetDocumentCountCall
    \/ \E q \in MatchQueries, id \in MatchIds : MatchDocument(q, id)

Spec == Init /\ [][Next]_vars

\* SpecTop: documents loaded with the ids 0, 1, 2, ... and then queried
NextTop ==
    \/ \E t \in TopInputs :
          /\ GetDocumentCount < TopDocs
          /\ AddDocument(GetDocumentCount, t[1], t[2], TopRatings(GetDocumentCount))
    \/ \E q \in TopQueries, p \in QueryPredicates : FindTopDocuments(q, PredicateFilter(p))
    \/ \E q \in TopQueries, s \in QueryStatuses : FindTopDocumentsByStatus(q, s)
    \/ \E q \in TopQueries : FindTopDocumentsDefault(q)

SpecTop == Init /\ [][NextTop]_vars

\* SpecNear: long documents loaded with the ids 0, 1, 2, ... and the rating
\* id each, and then queried
NextNear ==
    \/ \E t \in NearInputs :
          /\ GetDocumentCount < NearDocs
          /\ AddDocument(GetDocumentCount, t[1], t[2], <<GetDocumentCount>>)
    \/ \E q \in NearQueries, p \in QueryPredicates : FindTopDocuments(q, PredicateFilter(p))
    \/ \E q \in NearQueries, s \in QueryStatuses : FindTopDocumentsByStatus(q, s)
    \/ \E q \in NearQueries : FindTopDocumentsDefault(q)

SpecNear == Init /\ [][NextNear]_vars

\* SpecRatings: documents loaded with the ids 0, 1, 2, ... and ratings of
\* every kind, and then queried; an aborted process makes no further call
NextRatings ==
    \/ \E t \in RatingInputs, ratings \in RatingLists :
          /\ ret.error # "SIGABRT"
          /\ GetDocumentCount < RatingDocs
          /\ AddDocument(GetDocumentCount, t[1], t[2], ratings)
    \/ \E q \in RatingQueries, p \in QueryPredicates :
          /\ ret.error # "SIGABRT"
          /\ FindTopDocuments(q, PredicateFilter(p))
    \/ \E q \in RatingQueries, s \in QueryStatuses :
          /\ ret.error # "SIGABRT"
          /\ FindTopDocumentsByStatus(q, s)
    \/ \E q \in RatingQueries :
          /\ ret.error # "SIGABRT"
          /\ FindTopDocumentsDefault(q)

SpecRatings == Init /\ [][NextRatings]_vars

(***************************************************************************)
(* The claims.  A read-only call leaves the index as it was, so the state  *)
(* in which ret is examined is the state the call ran in.                  *)
(***************************************************************************)
\* the filter a call of FindTopDocuments ran with
EffectiveFilter(filter) ==
    IF filter.kind = "default" THEN StatusFilter("ACTUAL") ELSE filter

\* document id has a TF entry for word
HasEntry(word, id) ==
    /\ word \in DOMAIN word_to_document_freqs_
    /\ id \in DOMAIN word_to_document_freqs_[word]

\* the terms of a raw query: its tokens, a leading '-' removed
QueryTerms(raw_query) ==
    {IF w[1] = "-" THEN Tail(w) ELSE w : w \in Range(SplitIntoWords(raw_query))}

\* the minus terms of a raw query that are no stop words
MinusTerms(raw_query) ==
    {Tail(w) : w \in {x \in Range(SplitIntoWords(raw_query)) : x[1] = "-"}}
        \ stop_words_

\* the plus terms of a raw query that are no stop words
PlusTerms(raw_query) ==
    {x \in Range(SplitIntoWords(raw_query)) : x[1] # "-"} \ stop_words_

\* C1: AddDocument called with an id that was already added fails with a
\* DuplicateDocumentId error and leaves the index, the stored rating and
\* status of every id and the document count as they were.
C1_DuplicateIdRejected ==
    [][ (call'.op = "AddDocument" /\ call'.id \in DOMAIN documents_)
           => /\ ret'.error = "DuplicateDocumentId"
              /\ UNCHANGED <<word_to_document_freqs_, documents_>> ]_vars

\* C2: no document returned by FindTopDocuments has a TF entry for a minus
\* term of the query, whatever the filter, also when the term is a plus term
\* of the same query.
C2_NoMinusTermInResult ==
    call.op = "FindTopDocuments" =>
        \A i \in 1..Len(ret.docs) :
            \A w \in MinusTerms(call.text) : ~HasEntry(w, ret.docs[i].id)

\* a query with a term given both plain and negated returned a document,
\* while a document that passes the filter has that term and is left out
C2_Witness ==
    /\ call.op = "FindTopDocuments"
    /\ ret.docs # <<>>
    /\ \E w \in MinusTerms(call.text) \cap PlusTerms(call.text) :
          \E id \in DOMAIN documents_ :
             /\ HasEntry(w, id)
             /\ Predicate(EffectiveFilter(call.filter), id,
                          documents_[id].status, documents_[id].rating)
             /\ \A i \in 1..Len(ret.docs) : ret.docs[i].id # id

\* TF(t, d) as the claims define it: the occurrences of t among the words
\* of d, over the number of those words
ClaimedTF(t, d) ==
    IF Len(doc_terms[d]) = 0 THEN Zero
    ELSE Rat(Occurrences(doc_terms[d], t), Len(doc_terms[d]))

\* ln(documentCount / numberOfDocumentsContainingTerm(t)), in 10^-6
ClaimedIdf(t) ==
    LnNat(Cardinality(DOMAIN documents_))
        - LnNat(Cardinality({d \in DOMAIN documents_ : HasEntry(t, d)}))

\* the relevance the claims give document d for a raw query
ClaimedRelevance(raw_query, d) ==
    LET terms == {t \in PlusTerms(raw_query) : HasEntry(t, d)}
    IN  RatSumOver([t \in terms |-> RatScale(ClaimedTF(t, d), ClaimedIdf(t))], terms)

\* C3: the relevance of every returned document is the sum, over the plus
\* terms it has a TF entry for, of TF(t, d) * ln(documentCount / documents
\* containing t), TF(t, d) being occurrences of t in d over the number of
\* non-stop-word terms of d.
C3_RelevanceIsTfIdf ==
    call.op = "FindTopDocuments" =>
        \A i \in 1..Len(ret.docs) :
            ret.docs[i].relevance = ClaimedRelevance(call.text, ret.docs[i].id)

\* the documents matching the query of the last call under a filter, unsorted
Matching(filter) == FindAllDocuments(ParseQuery(stop_words_, call.text), filter)

\* the first MAX_RESULT_DOCUMENT_COUNT entries of a list
FirstK(docs) == SubSeq(docs, 1, Min(Len(docs), MAX_RESULT_DOCUMENT_COUNT))

\* the entries of a list whose document has status s
OfStatus(docs, s) == SelectSeq(docs, LAMBDA d : documents_[d.id].status = s)

\* two relevances less than 1e-6 apart
NearlyEqual(a, b) ==
    /\ RatLess(RatSub(a, b), Rat(ERROR_RATE, 1))
    /\ RatLess(RatSub(b, a), Rat(ERROR_RATE, 1))

\* C4: the returned list is sorted by relevance descending, rating
\* descending deciding between relevances less than 1e-6 apart: for i < j,
\* either the relevances differ by less than 1e-6 and rating[i] >= rating[j],
\* or relevance[i] > relevance[j].
C4_SortedByRelevanceThenRating ==
    call.op = "FindTopDocuments" =>
        \A i, j \in 1..Len(ret.docs) :
            i < j =>
               \/ /\ NearlyEqual(ret.docs[i].relevance, ret.docs[j].relevance)
                  /\ ret.docs[i].rating >= ret.docs[j].rating
               \/ RatLess(ret.docs[j].relevance, ret.docs[i].relevance)

\* C5: the returned list has at most MAX_RESULT_DOCUMENT_COUNT = 5 entries,
\* and is the first 5 of the full sorted ranking when more documents match.
C5_FirstFiveOfRanking ==
    call.op = "FindTopDocuments" =>
        /\ Len(ret.docs) <= MAX_RESULT_DOCUMENT_COUNT
        /\ \E full \in SortOutcomes(Matching(EffectiveFilter(call.filter))) :
              ret.docs = FirstK(full)

\* more than 5 documents matched and 5 were returned
C5_Witness ==
    /\ call.op = "FindTopDocuments"
    /\ Len(Matching(EffectiveFilter(call.filter))) > MAX_RESULT_DOCUMENT_COUNT
    /\ Len(ret.docs) = MAX_RESULT_DOCUMENT_COUNT

\* C6 as claimed: FindTopDocuments(query, s), and FindTopDocuments(query)
\* with s = ACTUAL, returns the entries of status s of the list that
\* FindTopDocuments(query, accept-all predicate) returns, in the same order.
C6_StatusSubsetOfTopRanking ==
    (call.op = "FindTopDocuments" /\ call.filter.kind \in {"status", "default"}) =>
        \E top \in FindTopDocumentsOutcomes(call.text, PredicateFilter("all")) :
            ret.docs = OfStatus(top, EffectiveFilter(call.filter).status)

\* C6 amended: FindTopDocuments(query, s), and FindTopDocuments(query) with
\* s = ACTUAL, returns the documents of status s among all documents
\* matching the query, with the relevance and rating they have there, sorted
\* by the comparator and cut to the first 5.
C6_StatusSubsetOfMatching ==
    (call.op = "FindTopDocuments" /\ call.filter.kind \in {"status", "default"}) =>
        \E sorted \in SortOutcomes(OfStatus(Matching(PredicateFilter("all")),
                                            EffectiveFilter(call.filter).status)) :
            ret.docs = FirstK(sorted)

\* a status was asked for, more than 5 documents match the query, some of
\* the status and some not, and one of the status is returned that ranks
\* below the fifth of all
C6_Witness ==
    /\ call.op = "FindTopDocuments"
    /\ call.filter.kind \in {"status", "default"}
    /\ ret.docs # <<>>
    /\ Len(Matching(PredicateFilter("all"))) > MAX_RESULT_DOCUMENT_COUNT
    /\ \A top \in FindTopDocumentsOutcomes(call.text, PredicateFilter("all")) :
          \E i \in 1..Len(ret.docs) : ret.docs[i] \notin Range(top)

\* the sum of the TF values of document id over the indexed terms
TFSum(id) ==
    LET tf == [w \in DOMAIN word_to_document_freqs_ |->
                 IF HasEntry(w, id) THEN word_to_document_freqs_[w][id] ELSE Zero]
    IN  RatSumOver(tf, DOMAIN tf)

\* C7: GetDocumentCount returns the number of distinct ids AddDocument was
\* called with, repeated ids and texts without indexable terms included.
C7_CountOfDistinctIds ==
    /\ GetDocumentCount = Cardinality(DOMAIN doc_terms)
    /\ call.op = "GetDocumentCount" => ret.count = Cardinality(DOMAIN doc_terms)

\* the count is asked after one id was added twice and another with a text
\* without indexable terms
C7_Witness ==
    /\ call.op = "GetDocumentCount"
    /\ ret.count = 2
    /\ \E id \in DOMAIN doc_terms : RatLess(One, TFSum(id))
    /\ \E id \in DOMAIN doc_terms : TFSum(id) = Zero

\* C8: for a known id, MatchDocument returns the stored status and a word
\* list that is empty when a minus term of the query has a TF entry for the
\* id, and otherwise holds each plus term with a TF entry for the id once;
\* no error is raised.
C8_MatchDocument ==
    (call.op = "MatchDocument" /\ call.id \in DOMAIN documents_) =>
        LET matched == {w \in PlusTerms(call.text) : HasEntry(w, call.id)}
        IN  /\ ret.error = "none"
            /\ ret.status = documents_[call.id].status
            /\ IF \E w \in MinusTerms(call.text) : HasEntry(w, call.id)
               THEN ret.words = <<>>
               ELSE /\ Range(ret.words) = matched
                    /\ Len(ret.words) = Cardinality(matched)

\* a document that has a plus term and a minus term of the query is matched
C8_Witness ==
    /\ call.op = "MatchDocument"
    /\ call.id \in DOMAIN documents_
    /\ \E w \in PlusTerms(call.text) : HasEntry(w, call.id)
    /\ \E w \in MinusTerms(call.text) : HasEntry(w, call.id)
    /\ ret.words = <<>>
    /\ ret.status = "BANNED"

\* C9 as claimed: in every state no stop word is a key of the index, and a
\* query whose terms are all stop words returns nothing.
C9_NoStopWordInIndex ==
    /\ \A w \in stop_words_ : w \notin DOMAIN word_to_document_freqs_
    /\ (call.op = "FindTopDocuments" /\ QueryTerms(call.text) \subseteq stop_words_)
          => ret.docs = <<>>

\* C9 amended: no call creates or changes the index entry of a term that is
\* a stop word when the call is made, and a query whose terms are all stop
\* words returns nothing.
C9_StopWordsNotIndexedByAdd ==
    [][ /\ \A w \in stop_words_ :
              w \in DOMAIN word_to_document_freqs_' =>
                 /\ w \in DOMAIN word_to_document_freqs_
                 /\ word_to_document_freqs_'[w] = word_to_document_freqs_[w]
        /\ (call'.op = "FindTopDocuments" /\ QueryTerms(call'.text) \subseteq stop_words_')
              => ret'.docs = <<>> ]_vars

\* a document with a stop word and another word was added: the other word is
\* indexed for it, the stop word is no key of the index
C9_Witness ==
    /\ call.op = "AddDocument"
    /\ \E w \in Range(SplitIntoWords(call.text)) \cap stop_words_ :
          w \notin DOMAIN word_to_document_freqs_
    /\ \E w \in Range(SplitIntoWords(call.text)) : HasEntry(w, call.id)

\* C10: the TF values of every document with at least one indexable term sum
\* to 1, and a document with no indexable term has no TF entry, its rating
\* and status being stored.
C10_TFSumsToOne ==
    \A id \in DOMAIN doc_terms :
        /\ id \in DOMAIN documents_
        /\ IF doc_terms[id] # <<>>
           THEN TFSum(id) = One
           ELSE \A w \in DOMAIN word_to_document_freqs_ : ~HasEntry(w, id)

\* the mean of ratings as an integer of any size, truncated toward zero:
\* each rating is q * n + m with 0 <= m < n, so that the sum is
\* (sum of the q) * n + (sum of the m)
ClaimedMean(ratings) ==
    LET n     == Len(ratings)
        q     == [i \in 1..n |-> ratings[i] \div n]
        m     == [i \in 1..n |-> ratings[i] % n]
        floor == Accumulate(q, 0) + (Accumulate(m, 0) \div n)
        rest  == Accumulate(m, 0) % n
    IN  IF n = 0 THEN 0
        ELSE IF floor < 0 /\ rest # 0 THEN floor + 1 ELSE floor

\* C11: the rating stored for a document by AddDocument is the sum of the
\* ratings the caller gave divided by their number, truncated toward zero,
\* and 0 for no ratings; every result for the document carries the stored
\* rating.
C11_RatingIsIntegerMean ==
    /\ call.op = "AddDocument" =>
          /\ ret.error = "none"
          /\ call.id \in DOMAIN documents_
          /\ documents_[call.id].rating = ClaimedMean(call.ratings)
    /\ call.op = "FindTopDocuments" =>
          \A i \in 1..Len(ret.docs) :
              ret.docs[i].rating = documents_[ret.docs[i].id].rating

\* the TF entries of document id in an index: term |-> TF
EntriesOf(freqs, id) ==
    [w \in {x \in DOMAIN freqs : id \in DOMAIN freqs[x]} |-> freqs[w][id]]

\* C12: no call removes or alters the TF entries or the stored rating and
\* status of an id added before it, and the only id a call adds metadata
\* for is the id AddDocument was called with.
C12_DocumentsImmutable ==
    [][ /\ \A id \in DOMAIN documents_ :
              /\ id \in DOMAIN documents_'
              /\ documents_'[id] = documents_[id]
              /\ EntriesOf(word_to_document_freqs_', id)
                    = EntriesOf(word_to_document_freqs_, id)
        /\ \A id \in (DOMAIN documents_') \ (DOMAIN documents_) :
              call'.op = "AddDocument" /\ call'.id = id ]_vars

=============================================================================
